---- MODULE Spec2Model ----
(***************************************************************************)
(* A model of the SLIC superpixel engine of src/SLIC.cpp: the seeder       *)
(* (initializeSLICData, findLowestGradient), the assign/update loop of     *)
(* createSuperpixels with its orphan recovery, and enforceConnectivity.    *)
(*                                                                         *)
(* Real-valued quantities are kept exact: a cluster centre is the record   *)
(* [l, a, b, x, y, n] standing for the five values l/n, a/n, b/n, x/n,     *)
(* y/n, and a distance is a pair <<num, den>> standing for num/den, with   *)
(* den = 0 standing for DBL_MAX.  Floating-point rounding is not modelled. *)
(***************************************************************************)
EXTENDS Integers, Sequences, FiniteSets, TLC

\* ------------------------------------------------------------------ bounds

\* image.rows and image.cols of every frame (the image size is fixed)
Rows == 3
Cols == 5
\* largest channel value of a pixel
MaxColor == 2
\* createSuperpixels calls in one behaviour
MaxFrames == 2
\* iterations of the do-while loop explored in one call
MaxIter == 3
\* largest configured iterationNumber
MaxIterationNumber == 2
\* largest keyFramesRatio
MaxKeyRatio == 2
\* contours returned by one findContours call, and centres the model lets
\* orphan recovery accumulate
MaxBlobs == 2
MaxClusters == 5
\* fixed-point resolution of the residual error (units per pixel)
ErrScale == 4

\* ------------------------------------------------------------- constants

\* cluster-count cap that forces a reseed in the ADD_SUPERPIXELS modes
ReseedCap == 1300
\* value of a not-reached pixel in pixelReachedByClusters
NotReached == 255

\* ----------------------------------------------------------------- enums

VideoModes == {"INDEPENDENT", "CONNECTED", "NOISE", "KEY_FRAMES",
               "KEY_FRAMES_NOISE", "ADD_SUPERPIXELS", "ADD_SUPERPIXELS_NOISE"}
SLICModes == {"ERROR_THRESHOLD", "FIXED_ITERATIONS"}

\* the same comparison in signed arithmetic, where 0 - 1 is -1
AtLeastNumberMinusOneSigned(index, number) == index >= number - 1

\* index >= iterationNumber - 1 in unsigned 32-bit arithmetic: for
\* iterationNumber = 0 the right-hand side wraps to UINT_MAX, which no
\* iteration index below 2^32 - 1 reaches
AtLeastNumberMinusOne(index, number) ==
    IF number = 0 THEN FALSE ELSE index >= number - 1

\* --------------------------------------------------------------- images

Pixels == 0 .. (Rows * Cols - 1)
PX(p) == p % Cols
PY(p) == p \div Cols
PixelAt(x, y) == y * Cols + x
InImage(x, y) == x >= 0 /\ x < Cols /\ y >= 0 /\ y < Rows

\* the frames fed to the engine: a uniform one and a textured one
UniformImage == [p \in Pixels |-> <<1, 1, 1>>]
TextureImage == [p \in Pixels |->
                   <<(PX(p) + PY(p)) % (MaxColor + 1), 0, PY(p) % 2>>]
Images == {UniformImage, TextureImage}

\* ------------------------------------------------------------ arithmetic

\* static_cast<int> of the real a/n (n > 0): truncation toward zero
Trunc(a, n) == IF a >= 0 THEN a \div n ELSE -((-a) \div n)

\* a/b < c/d for pairs <<num, den>>, den >= 0, den = 0 meaning DBL_MAX
Less(q, r) == q[1] * r[2] < r[1] * q[2]
DblMax == <<1, 0>>

RECURSIVE ISqrtBetween(_, _, _)
ISqrtBetween(v, lo, hi) ==
    IF lo >= hi THEN lo
    ELSE LET mid == (lo + hi + 1) \div 2
         IN  IF mid * mid <= v THEN ISqrtBetween(v, mid, hi)
                               ELSE ISqrtBetween(v, lo, mid - 1)
\* floor of the square root of v, 0 <= v < 2^30
ISqrt(v) == ISqrtBetween(v, 0, 32767)

RECURSIVE SumSeq(_)
SumSeq(s) == IF s = <<>> THEN 0 ELSE Head(s) + SumSeq(Tail(s))

\* ------------------------------------------------------------ variables

VARIABLES
    pixelCluster,              \* Assignment Map: pixel -> centre index or -1
    distanceFromClusterCentre, \* Distance Map: pixel -> <<num, den>>
    pixelReachedByClusters,    \* Reached Mask: pixel -> 0 or NotReached
    clusterCentres,            \* sequence of centres [l, a, b, x, y, n]
    previousClusterCentres,    \* snapshot of the previous iteration
    pixelsOfSameCluster,       \* sequence of per-centre pixel counts
    residualError,             \* sequence of per-centre residuals (fixed point)
    clustersNumber,
    pixelsNumber,
    distanceFactor,            \* <<w*w, S*S>> of the last reseed
    totalResidualError,        \* <<num, den>> in fixed-point units, or DblMax
    iterationIndex,
    framesNumber,
    go,
    call,                      \* arguments the createSuperpixels call in progress reads
    pc,                        \* "idle", "assign", "update"
    workers,                   \* positions of the parallel_for workers (race model)
    hist                       \* history of the calls, read by the properties only

vars == <<pixelCluster, distanceFromClusterCentre, pixelReachedByClusters,
          clusterCentres, previousClusterCentres, pixelsOfSameCluster,
          residualError, clustersNumber, pixelsNumber, distanceFactor,
          totalResidualError, iterationIndex, framesNumber, go, call, pc,
          workers, hist>>

\* --------------------------------------------------------------- inputs

SamplingSteps == {2}
SpatialWeights == {1}
ErrorThresholds == {1}
IterationNumbers == 0 .. MaxIterationNumber
KeyRatios == 1 .. MaxKeyRatio
\* successive values of the Gaussian generator, reused cyclically
NoiseStreams == {<<Cols, -1>>}

KeyModes == {"KEY_FRAMES", "KEY_FRAMES_NOISE"}
AddModes == {"ADD_SUPERPIXELS", "ADD_SUPERPIXELS_NOISE"}
NoiseModes == {"NOISE", "KEY_FRAMES_NOISE", "ADD_SUPERPIXELS_NOISE"}

NoCall == [image |-> UniformImage, samplingStep |-> 1, iterationNumber |-> 0,
           errorThreshold |-> 0, SLICMode |-> "FIXED_ITERATIONS",
           videoMode |-> "INDEPENDENT", connectedFrames |-> FALSE]

\* ---------------------------------------------------------------- seeder

Channel0(img, x, y) == img[PixelAt(x, y)][1]

Gradient(img, x, y) ==
    (Channel0(img, x + 1, y) - Channel0(img, x - 1, y)) *
    (Channel0(img, x + 1, y) - Channel0(img, x - 1, y)) +
    (Channel0(img, x, y - 1) - Channel0(img, x, y + 1)) *
    (Channel0(img, x, y - 1) - Channel0(img, x, y + 1))

\* the pixels the two loops of findLowestGradient do not skip
GradientCandidates(cx, cy) ==
    {q \in Pixels :
        /\ PY(q) >= cy - 1 /\ PY(q) <= cy + 1 /\ PY(q) < Rows - 1
        /\ PX(q) >= cx - 1 /\ PX(q) <= cx + 1 /\ PX(q) < Cols - 1
        /\ ~(PX(q) < 1 \/ PY(q) < 1)}

\* findLowestGradient: the first candidate, in scan order, of lowest gradient;
\* the centre itself when every candidate is skipped
FindLowestGradient(img, cx, cy) ==
    LET cand == GradientCandidates(cx, cy)
        G(q) == Gradient(img, PX(q), PY(q))
    IN  IF cand = {} THEN <<cx, cy>>
        ELSE LET best == CHOOSE q \in cand :
                            \A r \in cand : G(q) < G(r) \/ (G(q) = G(r) /\ q <= r)
             IN  <<PX(best), PY(best)>>

\* grid points S, 2S, ... below the bound
GridCount(S, bound) == (bound - 1) \div S

\* the centres pushed by the seeding loops, in push order
SeedCentres(img, S) ==
    LET nx == GridCount(S, Cols)
        ny == GridCount(S, Rows)
    IN  [k \in 1 .. (nx * ny) |->
            LET gx == S * (((k - 1) % nx) + 1)
                gy == S * (((k - 1) \div nx) + 1)
                lg == FindLowestGradient(img, gx, gy)
                col == img[PixelAt(lg[1], lg[2])]
            IN  [l |-> col[1], a |-> col[2], b |-> col[3],
                 x |-> lg[1], y |-> lg[2], n |-> 1]]

\* the reseed condition with the key-frame test taken on the number of the
\* frame about to be processed instead of the frames processed so far
MustReseedCountingThisFrame(videoMode, keyFramesRatio, connectedFrames) ==
    \/ connectedFrames = FALSE
    \/ Len(clusterCentres) = 0
    \/ (videoMode \in KeyModes /\ (framesNumber + 1) % keyFramesRatio = 0)
    \/ (videoMode \in AddModes /\ clustersNumber > ReseedCap)

\* the condition under which initializeSLICData initializes from scratch
MustReseed(videoMode, keyFramesRatio, connectedFrames) ==
    \/ connectedFrames = FALSE
    \/ Len(clusterCentres) = 0
    \/ (videoMode \in KeyModes /\ framesNumber % keyFramesRatio = 0)
    \/ (videoMode \in AddModes /\ clustersNumber > ReseedCap)

\* centre n (0-based) after the two randomGen() draws added to its position
AddNoise(centres, stream) ==
    [k \in 1 .. Len(centres) |->
        LET c == centres[k]
            dx == stream[((2 * (k - 1)) % Len(stream)) + 1]
            dy == stream[((2 * (k - 1) + 1) % Len(stream)) + 1]
        IN  [c EXCEPT !.x = c.x + dx * c.n, !.y = c.y + dy * c.n]]

\* ------------------------------------------------------- assignment step

\* computeDistance: colour distance + distanceFactor * spatial distance
ComputeDistance(c, p, img, factor) ==
    LET col == img[p]
        colorNum == (c.l - col[1] * c.n) * (c.l - col[1] * c.n) +
                    (c.a - col[2] * c.n) * (c.a - col[2] * c.n) +
                    (c.b - col[3] * c.n) * (c.b - col[3] * c.n)
        spaceNum == (c.x - PX(p) * c.n) * (c.x - PX(p) * c.n) +
                    (c.y - PY(p) * c.n) * (c.y - PY(p) * c.n)
    IN  <<colorNum * factor[2] + factor[1] * spaceNum,
          c.n * c.n * factor[2]>>

\* the window with a margin of S - 1 pixels where the code has S + 1
WindowOfStepMinusOne(c, S) ==
    {p \in Pixels :
        /\ PY(p) >= Trunc(c.y, c.n) - S + 1
        /\ PY(p) * c.n < c.y + (S - 1) * c.n
        /\ PX(p) >= Trunc(c.x, c.n) - S + 1
        /\ PX(p) * c.n < c.x + (S - 1) * c.n}

\* the in-image pixels the two window loops of a centre visit
Window(c, S) ==
    {p \in Pixels :
        /\ PY(p) >= Trunc(c.y, c.n) - S - 1
        /\ PY(p) * c.n < c.y + (S + 1) * c.n
        /\ PX(p) >= Trunc(c.x, c.n) - S - 1
        /\ PX(p) * c.n < c.x + (S + 1) * c.n}

\* the pass of a worker that stores the ordinal k of its centre (1-based)
\* where the code stores centreIndex (0-based)
VisitCentreStoringOrdinal(st, seen, k, centres, S, img, mark) ==
    LET w == Window(centres[k], S)
        t(p) == ComputeDistance(centres[k], p, img, distanceFactor)
        wins(p) == p \in w /\ Less(t(p), seen[p])
    IN  [dist    |-> [p \in Pixels |-> IF wins(p) THEN t(p) ELSE st.dist[p]],
         cluster |-> [p \in Pixels |-> IF wins(p) THEN k ELSE st.cluster[p]],
         reached |-> IF mark
                     THEN [p \in Pixels |-> IF p \in w THEN 0 ELSE st.reached[p]]
                     ELSE st.reached]

\* one worker's pass over the window of centre k (1-based), reading the
\* Distance Map `seen` for its comparisons
VisitCentre(st, seen, k, centres, S, img, mark) ==
    LET w == Window(centres[k], S)
        t(p) == ComputeDistance(centres[k], p, img, distanceFactor)
        wins(p) == p \in w /\ Less(t(p), seen[p])
    IN  [dist    |-> [p \in Pixels |-> IF wins(p) THEN t(p) ELSE st.dist[p]],
         cluster |-> [p \in Pixels |-> IF wins(p) THEN k - 1 ELSE st.cluster[p]],
         reached |-> IF mark
                     THEN [p \in Pixels |-> IF p \in w THEN 0 ELSE st.reached[p]]
                     ELSE st.reached]

RECURSIVE VisitAll(_, _, _, _, _, _, _)
VisitAll(st, order, stale, centres, S, img, mark) ==
    IF order = <<>> THEN st
    ELSE VisitAll(VisitCentre(st, IF stale THEN [p \in Pixels |-> DblMax] ELSE st.dist,
                              Head(order), centres, S, img, mark),
                  Tail(order), stale, centres, S, img, mark)

\* orders in which the workers reach the centres
Ascending(n) == [k \in 1 .. n |-> k]
Descending(n) == [k \in 1 .. n |-> n + 1 - k]
\* a schedule of the parallel_for: the order of the centres' writes, and
\* whether every worker compared against the Distance Map as it was reset
\* (all reads before all writes) or against the map as left by its
\* predecessor.  The frame-level model takes a race-free schedule and a
\* lost-update schedule; SpecRace below interleaves the single accesses.
Schedules == {[down |-> FALSE, stale |-> FALSE], [down |-> TRUE, stale |-> TRUE]}

AssignResult(sched, centres, n, S, img, mark) ==
    VisitAll([dist |-> [p \in Pixels |-> DblMax], cluster |-> pixelCluster,
              reached |-> pixelReachedByClusters],
             IF sched.down THEN Descending(n) ELSE Ascending(n),
             sched.stale, centres, S, img, mark)

\* ----------------------------------------------------------- update step

Members(map, k) == {p \in DOMAIN map : map[p] = k - 1}

RECURSIVE SumOver(_, _, _)
SumOver(set, img, f) ==
    IF set = {} THEN 0
    ELSE LET p == CHOOSE q \in set : TRUE
         IN  (CASE f = 1 -> img[p][1] [] f = 2 -> img[p][2] [] f = 3 -> img[p][3]
                [] f = 4 -> PX(p) [] OTHER -> PY(p)) + SumOver(set \ {p}, img, f)

\* the centres after accumulation and normalisation: an empty cluster keeps
\* the zeros it was reset to
RecomputeCentres(map, n, img) ==
    [k \in 1 .. n |->
        LET m == Members(map, k)
        IN  [l |-> SumOver(m, img, 1), a |-> SumOver(m, img, 2),
             b |-> SumOver(m, img, 3), x |-> SumOver(m, img, 4),
             y |-> SumOver(m, img, 5),
             n |-> IF m = {} THEN 1 ELSE Cardinality(m)]]

CountPixels(map, n) == [k \in 1 .. n |-> Cardinality(Members(map, k))]

\* sqrt of the squared displacement of a centre, in units of 1/ErrScale
Residual(c, q) ==
    LET dx == c.x * q.n - q.x * c.n
        dy == c.y * q.n - q.y * c.n
    IN  ISqrt(ErrScale * ErrScale * (dx * dx + dy * dy)) \div (c.n * q.n)

\* copy of the first n centres into a snapshot that keeps its length
CopyInto(snapshot, centres, n) ==
    [k \in 1 .. Len(snapshot) |-> IF k <= n THEN centres[k] ELSE snapshot[k]]

\* -------------------------------------------------------- orphan recovery

Unreached(mask) == {p \in DOMAIN mask : mask[p] = NotReached}

SetMin(set) == CHOOSE q \in set : \A r \in set : q <= r
SetMax(set) == CHOOSE q \in set : \A r \in set : q >= r

\* moments the blob primitive may return for a contour: a degenerate
\* contour (zeroth moment zero) or a blob centred on a not-reached pixel
BlobMoments(mask) ==
    {[m00 |-> 0, m10 |-> 0, m01 |-> 0]} \cup
    {[m00 |-> 1, m10 |-> PX(p), m01 |-> PY(p)] :
        p \in {SetMin(Unreached(mask)), SetMax(Unreached(mask))}}

\* the contour lists findContours may return
ContourLists(mask) ==
    UNION {[1 .. m -> BlobMoments(mask)] : m \in 0 .. MaxBlobs}

RECURSIVE SpawnCentresTransposed(_)
\* the contour loop with the two first-order moments exchanged
SpawnCentresTransposed(contours) ==
    IF contours = <<>> THEN <<>>
    ELSE LET mu == Head(contours)
         IN  IF mu.m00 = 0 THEN SpawnCentresTransposed(Tail(contours))
             ELSE <<[l |-> 0, a |-> 0, b |-> 0,
                     x |-> mu.m01, y |-> mu.m10, n |-> mu.m00]>>
                  \o SpawnCentresTransposed(Tail(contours))

RECURSIVE SpawnCentres(_)
\* the centres pushed by the loop over the contours
SpawnCentres(contours) ==
    IF contours = <<>> THEN <<>>
    ELSE LET mu == Head(contours)
         IN  IF mu.m00 = 0 THEN SpawnCentres(Tail(contours))
             ELSE <<[l |-> 0, a |-> 0, b |-> 0,
                     x |-> mu.m10, y |-> mu.m01, n |-> mu.m00]>>
                  \o SpawnCentres(Tail(contours))

Zeros(n) == [k \in 1 .. n |-> 0]

\* ---------------------------------------------------------- loop control

\* the termination test of the iteration just run, as the blob detector states it
JudgedFinal(total, index) ==
    \/ call.SLICMode = "ERROR_THRESHOLD" /\ Less(total, <<call.errorThreshold, 1>>)
    \/ call.SLICMode = "FIXED_ITERATIONS" /\ AtLeastNumberMinusOne(index, call.iterationNumber)

\* the condition of the do-while
LoopAgain(total, index, goNow) ==
    /\ \/ call.SLICMode = "ERROR_THRESHOLD" /\ Less(<<call.errorThreshold, 1>>, total)
       \/ call.SLICMode = "FIXED_ITERATIONS" /\ index < call.iterationNumber
    /\ goNow

\* --------------------------------------------------- connectivity enforcer

RECURSIVE SortedSeq(_)
SortedSeq(set) ==
    IF set = {} THEN <<>> ELSE <<SetMin(set)>> \o SortedSeq(set \ {SetMin(set)})

Around(p) == {q \in Pixels : /\ PX(q) >= PX(p) - 1 /\ PX(q) <= PX(p) + 1
                             /\ PY(q) >= PY(p) - 1 /\ PY(q) <= PY(p) + 1}

\* the adjacent-cluster search around the start pixel p: in every row the
\* first labelled pixel is taken and ends that row; a later row overwrites
AdjacentCluster(new, adj, p) ==
    LET hits == {q \in Around(p) : new[q] # -1}
        lastRow == SetMax({PY(q) : q \in hits})
    IN  IF hits = {} THEN adj
        ELSE new[SetMin({q \in hits : PY(q) = lastRow})]

RECURSIVE Flood(_, _, _, _, _)
\* the segment grown from seg[c] onwards over unlabelled pixels of `label`
Flood(new, seg, c, label, map) ==
    IF c > Len(seg) THEN [new |-> new, seg |-> seg]
    ELSE LET nbrs == {q \in Around(seg[c]) : new[q] = -1 /\ map[q] = label}
         IN  Flood([q \in Pixels |-> IF q \in nbrs THEN label ELSE new[q]],
                   seg \o SortedSeq(nbrs), c + 1, label, map)

\* static_cast<unsigned>(pixelsNumber / clustersNumber + 0.5), both counts
\* being unsigned: the division truncates before the 0.5 is added
ClustersAverageSize(pixels, clusters) == pixels \div clusters

\* the test count <= clustersAverageSize / 4 (unsigned division)
MergesAt(count, avg) == count <= avg \div 4

\* the segment kept, or relabelled to the adjacent cluster when its pixel
\* count is at most a quarter of the average cluster size
MergeSmall(grown, adj, avg) ==
    IF MergesAt(Len(grown.seg), avg)
    THEN LET inSeg == {grown.seg[c] : c \in 1 .. Len(grown.seg)}
         IN  [new |-> [q \in Pixels |-> IF q \in inSeg THEN adj ELSE grown.new[q]],
              adj |-> adj]
    ELSE [new |-> grown.new, adj |-> adj]

\* the body of the two raster loops for the pixel p
ConnectPixel(st, p, map, avg) ==
    IF st.new[p] # -1 THEN st
    ELSE CHOOSE r \in
            {MergeSmall(grown, adj, avg) :
                grown \in {Flood([st.new EXCEPT ![p] = map[p]], <<p>>, 1, map[p], map)},
                adj \in {AdjacentCluster([st.new EXCEPT ![p] = map[p]], st.adj, p)}} : TRUE

RECURSIVE ConnectFrom(_, _, _, _)
ConnectFrom(st, p, map, avg) ==
    IF p >= Rows * Cols THEN st
    ELSE CHOOSE r \in {ConnectFrom(next, p + 1, map, avg) :
                          next \in {ConnectPixel(st, p, map, avg)}} : TRUE

\* the Assignment Map enforceConnectivity leaves, for a map without
\* unassigned pixels
EnforceResult(map, pixels, clusters) ==
    ConnectFrom([new |-> [q \in Pixels |-> -1], adj |-> 0], 0, map,
                ClustersAverageSize(pixels, clusters)).new

\* ---------------------------------------------------------------- actions

NoHistory == [calls |-> 0, reseeded |-> FALSE, framesBefore |-> 0,
              clustersBefore |-> 0, keyK |-> 0, op |-> "none", relabelled |-> FALSE,
              recovery |-> FALSE, blobs |-> <<>>]

\* the state a SLIC object has after construction
Init ==
    /\ pixelCluster = <<>>
    /\ distanceFromClusterCentre = <<>>
    /\ pixelReachedByClusters = <<>>
    /\ clusterCentres = <<>>
    /\ previousClusterCentres = <<>>
    /\ pixelsOfSameCluster = <<>>
    /\ residualError = <<>>
    /\ clustersNumber = 0
    /\ pixelsNumber = 0
    /\ distanceFactor = <<0, 1>>
    /\ totalResidualError = <<0, 1>>
    /\ iterationIndex = 0
    /\ framesNumber = 0
    /\ go = FALSE
    /\ call = NoCall
    /\ pc = "idle"
    /\ workers = <<>>
    /\ hist = NoHistory

\* initializeSLICData with a full reseed: clearSLICData, then the grid
Reseed(img, S, w, videoMode) ==
    LET seeds == SeedCentres(img, S)
    IN  /\ pixelsNumber' = Rows * Cols
        /\ distanceFactor' = <<w * w, S * S>>
        /\ pixelCluster' = [p \in Pixels |-> -1]
        /\ distanceFromClusterCentre' = [p \in Pixels |-> DblMax]
        /\ clusterCentres' = seeds
        /\ previousClusterCentres' = seeds
        /\ pixelsOfSameCluster' = Zeros(Len(seeds))
        /\ residualError' = Zeros(Len(seeds))
        /\ clustersNumber' = Len(seeds)
        /\ pixelReachedByClusters' =
              IF videoMode \in AddModes THEN [p \in Pixels |-> NotReached]
              ELSE IF Len(clusterCentres) = 0 THEN <<>>
              ELSE pixelReachedByClusters

\* a reuse that runs the scalar resets of clearSLICData (clustersNumber = 0)
\* although it keeps the arrays of the previous frame
ReuseAfterScalarReset(videoMode, stream) ==
    /\ clusterCentres' = IF videoMode \in NoiseModes
                         THEN AddNoise(clusterCentres, stream)
                         ELSE clusterCentres
    /\ pixelReachedByClusters' =
          IF videoMode \in AddModes THEN [p \in Pixels |-> NotReached]
          ELSE pixelReachedByClusters
    /\ clustersNumber' = 0
    /\ UNCHANGED <<pixelsNumber, distanceFactor, pixelCluster,
                   distanceFromClusterCentre, previousClusterCentres,
                   pixelsOfSameCluster, residualError>>

\* initializeSLICData reusing the centres of the previous frame
Reuse(videoMode, stream) ==
    /\ clusterCentres' = IF videoMode \in NoiseModes
                         THEN AddNoise(clusterCentres, stream)
                         ELSE clusterCentres
    /\ pixelReachedByClusters' =
          IF videoMode \in AddModes THEN [p \in Pixels |-> NotReached]
          ELSE pixelReachedByClusters
    /\ UNCHANGED <<pixelsNumber, distanceFactor, pixelCluster,
                   distanceFromClusterCentre, previousClusterCentres,
                   pixelsOfSameCluster, residualError, clustersNumber>>

\* createSuperpixels up to the first iteration of its loop.  An argument the
\* call does not read in its mode takes one value only.
BeginFrameIn(videoModes, connected, ratios, maxFrames) ==
    /\ pc = "idle"
    /\ hist.calls < maxFrames
    /\ \E img \in Images, S \in SamplingSteps, w \in SpatialWeights,
          mode \in SLICModes, vm \in videoModes, cf \in connected,
          N \in IterationNumbers :
       \E T \in (IF mode = "ERROR_THRESHOLD" THEN ErrorThresholds ELSE {0}),
          K \in (IF vm \in KeyModes THEN ratios ELSE {1}),
          stream \in (IF vm \in NoiseModes THEN NoiseStreams ELSE {<<0>>}) :
          LET fresh == MustReseed(vm, K, cf)
          IN  /\ IF fresh THEN Reseed(img, S, w, vm) ELSE Reuse(vm, stream)
              /\ totalResidualError' = DblMax
              /\ iterationIndex' = 0
              /\ go' = FALSE
              /\ framesNumber' = IF fresh THEN 0 ELSE framesNumber
              /\ call' = [image |-> img, samplingStep |-> S, iterationNumber |-> N,
                          errorThreshold |-> T, SLICMode |-> mode, videoMode |-> vm,
                          connectedFrames |-> cf]
              /\ pc' = "assign"
              /\ hist' = [hist EXCEPT
                     !.calls = hist.calls + 1,
                     !.reseeded = fresh,
                     !.framesBefore = framesNumber,
                     !.clustersBefore = clustersNumber,
                     !.op = "create",
                     !.relabelled = FALSE,
                     !.recovery = FALSE,
                     !.blobs = <<>>]
    /\ UNCHANGED workers

\* a createSuperpixels call with any arguments
BeginFrame == BeginFrameIn(VideoModes, BOOLEAN, KeyRatios, MaxFrames)

\* the reset of the Distance Map and the parallel_for over the centres
AssignStep ==
    /\ pc = "assign"
    /\ iterationIndex < MaxIter
    /\ \E sched \in Schedules :
          \E r \in {AssignResult(sched, clusterCentres, clustersNumber,
                                 call.samplingStep, call.image,
                                 call.videoMode \in AddModes)} :
              /\ distanceFromClusterCentre' = r.dist
              /\ pixelCluster' = r.cluster
              /\ pixelReachedByClusters' = r.reached
    /\ pc' = "update"
    /\ UNCHANGED <<clusterCentres, previousClusterCentres, pixelsOfSameCluster,
                   residualError, clustersNumber, pixelsNumber, distanceFactor,
                   totalResidualError, iterationIndex, framesNumber, go, call, hist,
                   workers>>

\* the rest of the loop body: new centres, residual error, blob detector,
\* ++iterationIndex, the loop test and, when the loop ends, ++framesNumber
UpdateStep ==
    /\ pc = "update"
    /\ \E centres \in {RecomputeCentres(pixelCluster, clustersNumber, call.image)} :
       LET first == iterationIndex = 0
           residual == IF first THEN residualError
                       ELSE [k \in 1 .. Len(residualError) |->
                               IF k <= clustersNumber
                               THEN Residual(centres[k], previousClusterCentres[k])
                               ELSE residualError[k]]
           total == IF first THEN totalResidualError
                    ELSE <<SumSeq(SubSeq(residual, 1, clustersNumber)), clustersNumber>>
           previous == CopyInto(previousClusterCentres, centres, clustersNumber)
           orphans == /\ call.videoMode \in AddModes
                      /\ JudgedFinal(total, iterationIndex)
                      /\ Unreached(pixelReachedByClusters) # {}
       IN  /\ totalResidualError' = total
           /\ iterationIndex' = iterationIndex + 1
           /\ IF orphans
              THEN \E contours \in ContourLists(pixelReachedByClusters) :
                     LET spawned == SpawnCentres(contours)
                     IN  /\ clustersNumber + Len(spawned) <= MaxClusters
                         /\ clusterCentres' = centres \o spawned
                         /\ previousClusterCentres' = previous \o spawned
                         /\ pixelsOfSameCluster' =
                               CountPixels(pixelCluster, clustersNumber)
                                  \o Zeros(Len(spawned))
                         /\ residualError' = residual \o Zeros(Len(spawned))
                         /\ clustersNumber' = clustersNumber + Len(spawned)
                         /\ go' = go
                         /\ hist' = [hist EXCEPT !.recovery = TRUE,
                                                 !.blobs = contours]
              ELSE /\ clusterCentres' = centres
                   /\ pixelsOfSameCluster' = CountPixels(pixelCluster, clustersNumber)
                   /\ previousClusterCentres' = previous
                   /\ residualError' = residual
                   /\ clustersNumber' = clustersNumber
                   /\ go' = TRUE
                   /\ hist' = [hist EXCEPT !.recovery = FALSE, !.blobs = <<>>]
           /\ IF LoopAgain(total, iterationIndex + 1, go')
              THEN /\ pc' = "assign"
                   /\ UNCHANGED <<framesNumber, call>>
              ELSE /\ pc' = "idle"
                   /\ framesNumber' = framesNumber + 1
                   /\ call' = [NoCall EXCEPT !.image = call.image]
    /\ UNCHANGED <<pixelCluster, distanceFromClusterCentre, pixelReachedByClusters,
                   pixelsNumber, distanceFactor, workers>>

\* enforceConnectivity on the frame just processed.  With no cluster the
\* average size divides by zero, and with an unassigned pixel the flood
\* fill does not end: neither call returns.
EnforceConnectivity ==
    /\ pc = "idle"
    /\ clustersNumber > 0
    /\ \A p \in Pixels : pixelCluster[p] # -1
    /\ \E new \in {EnforceResult(pixelCluster, pixelsNumber, clustersNumber)} :
           /\ pixelCluster' = new
           /\ clusterCentres' =
                 CopyInto(clusterCentres,
                          RecomputeCentres(new, clustersNumber, call.image),
                          clustersNumber)
           /\ pixelsOfSameCluster' =
                 CopyInto(pixelsOfSameCluster, CountPixels(new, clustersNumber),
                          clustersNumber)
           /\ hist' = [hist EXCEPT !.op = "enforce",
                                   !.relabelled = (new # pixelCluster)]
    /\ UNCHANGED <<distanceFromClusterCentre, pixelReachedByClusters,
                   previousClusterCentres, residualError, clustersNumber,
                   pixelsNumber, distanceFactor, totalResidualError,
                   iterationIndex, framesNumber, go, call, pc, workers>>

Next == BeginFrame \/ AssignStep \/ UpdateStep \/ EnforceConnectivity

Spec == Init /\ [][Next]_vars

\* --------------------------------------------------- key-frame sequences

\* largest number of calls in a key-frame sequence
MaxKeyFrames == 4

InitKey ==
    \E K \in KeyRatios :
        /\ pixelCluster = <<>>
        /\ distanceFromClusterCentre = <<>>
        /\ pixelReachedByClusters = <<>>
        /\ clusterCentres = <<>>
        /\ previousClusterCentres = <<>>
        /\ pixelsOfSameCluster = <<>>
        /\ residualError = <<>>
        /\ clustersNumber = 0
        /\ pixelsNumber = 0
        /\ distanceFactor = <<0, 1>>
        /\ totalResidualError = <<0, 1>>
        /\ iterationIndex = 0
        /\ framesNumber = 0
        /\ go = FALSE
        /\ call = NoCall
        /\ pc = "idle"
        /\ workers = <<>>
        /\ hist = [NoHistory EXCEPT !.keyK = K]

\* a call of a sequence with connected frames, a key-frame mode and the
\* key-frame ratio of the sequence
BeginKeyFrame == BeginFrameIn(KeyModes, {TRUE}, {hist.keyK}, MaxKeyFrames)

NextKey == BeginKeyFrame \/ AssignStep \/ UpdateStep \/ EnforceConnectivity

SpecKey == InitKey /\ [][NextKey]_vars

\* ------------------------------------ connectivity enforcer on given maps

\* cluster count of the maps, and width of the block of columns whose
\* pixels take every label (the other pixels belong to cluster 0)
ECClusters == 3
BlockCols == 3

Block == {p \in Pixels : PX(p) < BlockCols}

\* the engine after a frame that left a fully-assigned Assignment Map
InitEC ==
    \E f \in [Block -> 0 .. (ECClusters - 1)] :
        /\ pixelCluster = [p \in Pixels |-> IF p \in Block THEN f[p] ELSE 0]
        /\ distanceFromClusterCentre = [p \in Pixels |-> DblMax]
        /\ pixelReachedByClusters = <<>>
        /\ clusterCentres = RecomputeCentres(pixelCluster, ECClusters, UniformImage)
        /\ previousClusterCentres = clusterCentres
        /\ pixelsOfSameCluster = CountPixels(pixelCluster, ECClusters)
        /\ residualError = Zeros(ECClusters)
        /\ clustersNumber = ECClusters
        /\ pixelsNumber = Rows * Cols
        /\ distanceFactor = <<1, 4>>
        /\ totalResidualError = DblMax
        /\ iterationIndex = 1
        /\ framesNumber = 1
        /\ go = TRUE
        /\ call = NoCall
        /\ pc = "idle"
        /\ workers = <<>>
        /\ hist = [NoHistory EXCEPT !.calls = 1, !.op = "create"]

NextEC == EnforceConnectivity

SpecEC == InitEC /\ [][NextEC]_vars

\* ------------------------------ the parallel_for of one Assignment Step

\* One worker per centre walks its window in scan order.  For a pixel it
\* computes the distance and compares it with the Distance Map entry (one
\* read), then writes the Distance Map entry, then the Assignment Map
\* entry; the accesses of different workers interleave freely.

\* the Gaussian draws of the frame whose Assignment Step is interleaved
RaceNoise == <<-3, -2, 0, -3>>

\* the Assignment Map a race-free first iteration leaves on fresh seeds
\* (the lowest centre index wins a tie)
FirstAssignment(seeds, S, img, factor) ==
    [p \in Pixels |->
        LET cover == {k \in 1 .. Len(seeds) : p \in Window(seeds[k], S)}
            D(k) == ComputeDistance(seeds[k], p, img, factor)
        IN  IF cover = {} THEN -1
            ELSE (CHOOSE k \in cover :
                    \A j \in cover :
                        Less(D(k), D(j)) \/ (~Less(D(j), D(k)) /\ k <= j)) - 1]

\* The first Assignment Step of a NOISE frame that follows a reseeded frame
\* of one iteration: the centres are the means of that frame, jittered, and
\* the Assignment Map is the one that frame left; workers not started.
InitRace ==
    \E img \in Images, S \in SamplingSteps, w \in SpatialWeights :
    \E first \in {FirstAssignment(SeedCentres(img, S), S, img, <<w * w, S * S>>)} :
    \E means \in {RecomputeCentres(first, Len(SeedCentres(img, S)), img)} :
    \E centres \in {AddNoise(means, RaceNoise)} :
        /\ pixelCluster = first
        /\ distanceFromClusterCentre = [p \in Pixels |-> DblMax]
        /\ pixelReachedByClusters = <<>>
        /\ clusterCentres = centres
        /\ previousClusterCentres = means
        /\ pixelsOfSameCluster = CountPixels(first, Len(means))
        /\ residualError = Zeros(Len(means))
        /\ clustersNumber = Len(means)
        /\ pixelsNumber = Rows * Cols
        /\ distanceFactor = <<w * w, S * S>>
        /\ totalResidualError = DblMax
        /\ iterationIndex = 0
        /\ framesNumber = 1
        /\ go = FALSE
        /\ call = [NoCall EXCEPT !.image = img, !.samplingStep = S,
                                 !.iterationNumber = 1, !.videoMode = "NOISE",
                                 !.connectedFrames = TRUE]
        /\ pc = "race"
        /\ workers = [k \in 1 .. Len(means) |->
                        [todo |-> SortedSeq(Window(centres[k], S)),
                         phase |-> "compare", temp |-> DblMax]]
        /\ hist = [NoHistory EXCEPT !.calls = 2, !.framesBefore = 1,
                                    !.clustersBefore = Len(means), !.op = "create"]

RaceUnchanged == <<clusterCentres, previousClusterCentres, pixelsOfSameCluster,
                   residualError, clustersNumber, pixelsNumber, distanceFactor,
                   totalResidualError, iterationIndex, framesNumber, go, call,
                   pc, hist, pixelReachedByClusters>>

\* worker k computes the distance of its next pixel and reads the Distance Map
WorkerCompare(k) ==
    /\ pc = "race"
    /\ workers[k].phase = "compare"
    /\ workers[k].todo # <<>>
    /\ LET p == Head(workers[k].todo)
           t == ComputeDistance(clusterCentres[k], p, call.image, distanceFactor)
       IN  workers' = IF Less(t, distanceFromClusterCentre[p])
                      THEN [workers EXCEPT ![k].phase = "writeDistance",
                                           ![k].temp = t]
                      ELSE [workers EXCEPT ![k].todo = Tail(workers[k].todo)]
    /\ UNCHANGED <<pixelCluster, distanceFromClusterCentre>>
    /\ UNCHANGED RaceUnchanged

\* worker k stores its distance in the Distance Map
WorkerWriteDistance(k) ==
    /\ pc = "race"
    /\ workers[k].phase = "writeDistance"
    /\ distanceFromClusterCentre' =
          [distanceFromClusterCentre EXCEPT ![Head(workers[k].todo)] = workers[k].temp]
    /\ workers' = [workers EXCEPT ![k].phase = "writeCluster"]
    /\ UNCHANGED pixelCluster
    /\ UNCHANGED RaceUnchanged

\* worker k stores its centre index in the Assignment Map and moves on
WorkerWriteCluster(k) ==
    /\ pc = "race"
    /\ workers[k].phase = "writeCluster"
    /\ pixelCluster' = [pixelCluster EXCEPT ![Head(workers[k].todo)] = k - 1]
    /\ workers' = [workers EXCEPT ![k].phase = "compare",
                                  ![k].todo = Tail(workers[k].todo)]
    /\ UNCHANGED distanceFromClusterCentre
    /\ UNCHANGED RaceUnchanged

Compare == \E k \in DOMAIN workers : WorkerCompare(k)
WriteDistance == \E k \in DOMAIN workers : WorkerWriteDistance(k)
WriteCluster == \E k \in DOMAIN workers : WorkerWriteCluster(k)

NextRace == Compare \/ WriteDistance \/ WriteCluster

SpecRace == InitRace /\ [][NextRace]_vars

\* every worker has left its window
RaceDone == pc = "race" /\ \A k \in DOMAIN workers : workers[k].todo = <<>>

\* ------------------------- the raster pass of enforceConnectivity, by step

\* width of the block of columns whose pixels take every label, and the
\* segment length beyond which the flood fill is followed no further
FloodCols == 2
MaxSegment == 20

FloodBlock == {p \in Pixels : PX(p) < FloodCols}

\* the engine after a frame: either one that left a fully-assigned
\* Assignment Map, or one whose image was not larger than the sampling step
\* in some direction, so that the seeding loops placed no centre and every
\* entry is still -1
InitFlood ==
    \E f \in [FloodBlock -> 0 .. (ECClusters - 1)], seeded \in BOOLEAN :
        /\ pixelCluster = [p \in Pixels |->
                             IF ~seeded THEN -1
                             ELSE IF p \in FloodBlock THEN f[p] ELSE 0]
        /\ seeded \/ \A p \in FloodBlock : f[p] = 0
        /\ clustersNumber = IF seeded THEN ECClusters ELSE 0
        /\ distanceFromClusterCentre = [p \in Pixels |-> DblMax]
        /\ pixelReachedByClusters = <<>>
        /\ clusterCentres = RecomputeCentres(pixelCluster, clustersNumber, UniformImage)
        /\ previousClusterCentres = clusterCentres
        /\ pixelsOfSameCluster = CountPixels(pixelCluster, clustersNumber)
        /\ residualError = Zeros(clustersNumber)
        /\ pixelsNumber = Rows * Cols
        /\ distanceFactor = <<1, 4>>
        /\ totalResidualError = DblMax
        /\ iterationIndex = 1
        /\ framesNumber = 1
        /\ go = TRUE
        /\ call = NoCall
        /\ pc = "idle"
        /\ workers = <<>>
        /\ hist = [NoHistory EXCEPT !.calls = 1, !.op = "create"]

PassUnchanged ==
    UNCHANGED <<pixelCluster, distanceFromClusterCentre, pixelReachedByClusters,
                clusterCentres, previousClusterCentres, pixelsOfSameCluster,
                residualError, clustersNumber, pixelsNumber, distanceFactor,
                totalResidualError, iterationIndex, framesNumber, go, call, hist>>

\* the locals of enforceConnectivity before the raster loops: new is
\* newPixelCluster, at the raster position, seg and c the pixelSegment and
\* its loop index
PassLocals(avg) ==
    [new |-> [q \in Pixels |-> -1], at |-> 0, seg |-> <<>>, c |-> 1,
     adj |-> 0, avg |-> avg]

\* enforceConnectivity up to the raster loops, with at least one cluster
PassBegin ==
    /\ pc = "idle"
    /\ clustersNumber > 0
    /\ workers' = PassLocals(ClustersAverageSize(pixelsNumber, clustersNumber))
    /\ pc' = "pass"
    /\ PassUnchanged

\* with no cluster the unsigned division by zero is undefined: the build
\* may stop the process there ...
PassTrap ==
    /\ pc = "idle"
    /\ clustersNumber = 0
    /\ pc' = "trapped"
    /\ workers' = workers
    /\ PassUnchanged

\* ... or go on with some quotient
PassBeginUndefined ==
    /\ pc = "idle"
    /\ clustersNumber = 0
    /\ \E avg \in 0 .. pixelsNumber : workers' = PassLocals(avg)
    /\ pc' = "pass"
    /\ PassUnchanged

\* the raster loops step over a pixel already labelled
SkipPixel ==
    /\ pc = "pass"
    /\ workers.at < pixelsNumber
    /\ workers.new[workers.at] # -1
    /\ workers' = [workers EXCEPT !.at = workers.at + 1]
    /\ pc' = pc
    /\ PassUnchanged

\* the raster loops reach a pixel whose new entry is -1: the segment starts
\* there, the pixel takes its Assignment Map entry, and the adjacent cluster
\* is searched
SegmentStart ==
    /\ pc = "pass"
    /\ workers.at < pixelsNumber
    /\ workers.new[workers.at] = -1
    /\ LET p == workers.at
           new == [workers.new EXCEPT ![p] = pixelCluster[p]]
       IN  workers' = [workers EXCEPT !.new = new, !.seg = <<p>>, !.c = 1,
                                      !.adj = AdjacentCluster(new, workers.adj, p)]
    /\ pc' = "flood"
    /\ PassUnchanged

\* one round of the loop over c: the neighbours of pixelSegment[c] whose new
\* entry is -1 and whose Assignment Map entry is that of the start pixel are
\* pushed and take the start pixel's entry
SegmentGrow ==
    /\ pc = "flood"
    /\ workers.c <= Len(workers.seg)
    /\ Len(workers.seg) <= MaxSegment
    /\ LET label == pixelCluster[workers.at]
           nbrs == {q \in Around(workers.seg[workers.c]) :
                       workers.new[q] = -1 /\ pixelCluster[q] = label}
       IN  workers' = [workers EXCEPT
                          !.new = [q \in Pixels |->
                                     IF q \in nbrs THEN label ELSE workers.new[q]],
                          !.seg = workers.seg \o SortedSeq(nbrs),
                          !.c = workers.c + 1]
    /\ pc' = pc
    /\ PassUnchanged

\* the loop over c has ended: the segment is merged if small, and the raster
\* loops go on
SegmentClose ==
    /\ pc = "flood"
    /\ workers.c > Len(workers.seg)
    /\ LET merged == MergeSmall([new |-> workers.new, seg |-> workers.seg],
                                workers.adj, workers.avg)
       IN  workers' = [workers EXCEPT !.new = merged.new, !.seg = <<>>, !.c = 1,
                                      !.at = workers.at + 1]
    /\ pc' = "pass"
    /\ PassUnchanged

\* the raster loops have ended: the new map is copied back and the centres
\* are recomputed
PassEnd ==
    /\ pc = "pass"
    /\ workers.at = pixelsNumber
    /\ pixelCluster' = workers.new
    /\ clusterCentres' =
          CopyInto(clusterCentres,
                   RecomputeCentres(workers.new, clustersNumber, call.image),
                   clustersNumber)
    /\ pixelsOfSameCluster' =
          CopyInto(pixelsOfSameCluster, CountPixels(workers.new, clustersNumber),
                   clustersNumber)
    /\ hist' = [hist EXCEPT !.op = "enforce",
                            !.relabelled = (workers.new # pixelCluster)]
    /\ workers' = <<>>
    /\ pc' = "idle"
    /\ UNCHANGED <<distanceFromClusterCentre, pixelReachedByClusters,
                   previousClusterCentres, residualError, clustersNumber,
                   pixelsNumber, distanceFactor, totalResidualError,
                   iterationIndex, framesNumber, go, call>>

NextFlood ==
    \/ PassBegin \/ PassTrap \/ PassBeginUndefined \/ SkipPixel
    \/ SegmentStart \/ SegmentGrow \/ SegmentClose \/ PassEnd

SpecFlood == InitFlood /\ [][NextFlood]_vars

\* ------------------------------------------------------------- properties

\* a createSuperpixels call returns in this step
CallReturns == pc = "update" /\ pc' = "idle"
\* a createSuperpixels call starts in this step
CallStarts == pc = "idle" /\ pc' = "assign"

\* C1: every Assignment Map entry is unassigned (-1) or an index in
\* [0, clustersNumber), after any sequence of createSuperpixels and
\* enforceConnectivity calls
C1_EntriesInRange ==
    \A p \in DOMAIN pixelCluster :
        pixelCluster[p] = -1 \/ (pixelCluster[p] >= 0 /\ pixelCluster[p] < clustersNumber)

\* a second frame, processed and then relabelled by enforceConnectivity, with
\* a pixel in the cluster of highest index
C1_Witness ==
    /\ pc = "idle" /\ hist.calls = 2 /\ hist.op = "enforce" /\ hist.relabelled
    /\ \E p \in DOMAIN pixelCluster : pixelCluster[p] = clustersNumber - 1

\* the centres whose search window contains the pixel p
Covering(p) ==
    {k \in 1 .. clustersNumber : p \in Window(clusterCentres[k], call.samplingStep)}

\* C2: when every worker of an Assignment Step has finished, whatever the
\* interleaving of their accesses, each covered pixel is assigned a centre
\* of minimum combined distance among the centres whose window contains it,
\* and the Distance Map holds that centre's distance
C2_AssignmentIsMinimum ==
    RaceDone =>
        \A p \in Pixels :
            Covering(p) # {} =>
                \E k \in Covering(p) :
                    LET D(j) == ComputeDistance(clusterCentres[j], p, call.image,
                                                distanceFactor)
                    IN  /\ pixelCluster[p] = k - 1
                        /\ distanceFromClusterCentre[p] = D(k)
                        /\ \A j \in Covering(p) : ~Less(D(j), D(k))

\* C3: an ERROR_THRESHOLD call returns after at most iterationNumber
\* iterations
C3_ThresholdCallWithinCap ==
    [][(CallReturns /\ call.SLICMode = "ERROR_THRESHOLD")
          => iterationIndex' <= call.iterationNumber]_vars

\* C4: a FIXED_ITERATIONS call with iteration count N >= 0 returns after
\* exactly N iterations (iterationIndex = N after the loop)
C4_FixedCallRunsExactlyN ==
    [][(CallReturns /\ call.SLICMode = "FIXED_ITERATIONS")
          => iterationIndex' = call.iterationNumber]_vars

\* the blob detector of the iteration being completed pushes centres
OrphanRecoveryRuns ==
    /\ pc = "update"
    /\ call.videoMode \in AddModes
    /\ JudgedFinal(totalResidualError', iterationIndex)
    /\ Unreached(pixelReachedByClusters) # {}

ArraysMatchCount ==
    /\ Len(clusterCentres) = clustersNumber
    /\ Len(previousClusterCentres) = clustersNumber
    /\ Len(pixelsOfSameCluster) = clustersNumber
    /\ Len(residualError) = clustersNumber

\* C5: inside a call the cluster count never decreases and only orphan
\* recovery increases it; it decreases only in a call that reseeds; and in
\* every state the centre array and its snapshot hold one centre (five
\* values) per cluster, the size counters and residuals one value per cluster
C5_ClusterCountMonotone ==
    /\ []ArraysMatchCount
    /\ [][/\ (pc # "idle" /\ clustersNumber' > clustersNumber) => OrphanRecoveryRuns
          /\ clustersNumber' < clustersNumber => (CallStarts /\ hist'.reseeded)]_vars

\* a call that reuses the centres of the previous frame has grown the
\* cluster count by orphan recovery
C5_Witness ==
    /\ pc = "idle" /\ hist.op = "create" /\ ~hist.reseeded
    /\ hist.clustersBefore > 0 /\ clustersNumber > hist.clustersBefore

\* C6: a completed call leaves the frame counter one above its value
\* before the call, and after n calls the counter reads n
C6_FrameCounterCountsCalls ==
    (pc = "idle" /\ hist.calls > 0) =>
        /\ framesNumber = hist.framesBefore + 1
        /\ framesNumber = hist.calls

\* C7: in a key-frame sequence with connected frames and ratio K, the call
\* of 0-based position n reseeds (centres from the grid, Assignment Map
\* unassigned) iff n is a multiple of K, and otherwise keeps what the
\* previous call left
C7_KeyFrameEveryK ==
    [][CallStarts =>
          IF hist.calls % hist.keyK = 0
          THEN /\ hist'.reseeded
               /\ previousClusterCentres' =
                     SeedCentres(call'.image, call'.samplingStep)
               /\ \A p \in Pixels : pixelCluster'[p] = -1
          ELSE /\ ~hist'.reseeded
               /\ previousClusterCentres' = previousClusterCentres
               /\ pixelCluster' = pixelCluster
               /\ clustersNumber' = clustersNumber]_vars

\* with ratio 2, the third call of a sequence has reseeded and returned
C7_Witness ==
    pc = "idle" /\ hist.keyK = 2 /\ hist.calls = 3 /\ hist.reseeded /\ hist.op = "create"

\* C8: a call in INDEPENDENT mode begins with a full reseed, whatever its
\* other arguments
C8_IndependentReseeds ==
    (pc # "idle" /\ call.videoMode = "INDEPENDENT") => hist.reseeded

\* C9: enforceConnectivity run on its own output changes no Assignment Map
\* entry
C9_EnforceIdempotent ==
    [][(hist.op = "enforce" /\ hist'.op = "enforce")
          => pixelCluster' = pixelCluster]_vars

RECURSIVE Grow(_, _, _)
\* the pixels of `label` reachable from `region` through 8-neighbours
Grow(map, label, region) ==
    LET more == {q \in Pixels : map[q] = label /\ \E r \in region : q \in Around(r)}
    IN  IF more \subseteq region THEN region ELSE Grow(map, label, region \cup more)

\* the maximal 8-connected region of same-label pixels around p
Region(map, p) == Grow(map, map[p], {p})

\* C10: after enforceConnectivity no maximal 8-connected region of one
\* label has a pixel count of at most a quarter of the average cluster size
C10_NoSmallRegion ==
    hist.op = "enforce" =>
        \A p \in Pixels :
            4 * Cardinality(Region(pixelCluster, p)) >
                ClustersAverageSize(pixelsNumber, clustersNumber)

\* the call has just seeded its centres from scratch
JustSeeded == pc = "assign" /\ iterationIndex = 0 /\ hist.reseeded

\* C11: after a full reseed on the uniform image with sampling step S the
\* Centre Store holds one centre per grid point (i*S, j*S) inside the image,
\* each at its grid point, and the previous snapshot equals the Centre Store
C11_UniformSeedsOnGrid ==
    (JustSeeded /\ call.image = UniformImage) =>
        LET S == call.samplingStep
            nx == GridCount(S, Cols)
            ny == GridCount(S, Rows)
        IN  /\ clustersNumber = nx * ny
            /\ Len(clusterCentres) = nx * ny
            /\ \A i \in 1 .. nx, j \in 1 .. ny :
                  \E k \in 1 .. Len(clusterCentres) :
                     /\ clusterCentres[k].x = i * S * clusterCentres[k].n
                     /\ clusterCentres[k].y = j * S * clusterCentres[k].n
            /\ previousClusterCentres = clusterCentres

\* the blob detector ran in the iteration this step completes
RecoveryRan == pc = "update" /\ hist'.recovery

\* the contours of non-zero zeroth moment, in the order returned
Blobs(contours) == SelectSeq(contours, LAMBDA mu : mu.m00 # 0)

C13_RecoveryIteratesAgain ==
    [][(RecoveryRan /\ clustersNumber' > clustersNumber) => pc' = "assign"]_vars

\* C14: orphan recovery runs in an iteration only in an ADD_SUPERPIXELS
\* mode, with a not-reached pixel, and in the iteration the termination
\* test judges final: Total Residual Error at or below the threshold in
\* ERROR_THRESHOLD mode, iteration index equal to iterationNumber - 1 in
\* FIXED_ITERATIONS mode (so never when iterationNumber is 0)
C14_RecoveryOnlyWhenFinal ==
    [][RecoveryRan =>
          /\ call.videoMode \in AddModes
          /\ \E p \in Pixels : pixelReachedByClusters[p] = NotReached
          /\ IF call.SLICMode = "ERROR_THRESHOLD"
             THEN ~Less(<<call.errorThreshold, 1>>, totalResidualError')
             ELSE iterationIndex = call.iterationNumber - 1]_vars

\* a call with iterationNumber 1 returned after orphan recovery ran in its
\* only iteration and the blob primitive found no contour
C14_Witness ==
    /\ pc = "idle" /\ hist.recovery /\ hist.blobs = <<>>
    /\ iterationIndex = 1

\* a step that is one enforceConnectivity call
EnforceStep == pc = "idle" /\ hist'.op = "enforce"

\* the pixel at which the raster pass starts the component of p
StartOf(map, p) == SetMin(Region(map, p))

\* C15: every component enforceConnectivity finds undersized gets the label
\* of a pixel 8-adjacent to the component, labelled earlier in the pass,
\* and that label differs from the component's original cluster
C15_MergedIntoAdjacent ==
    [][EnforceStep =>
          LET avg == ClustersAverageSize(pixelsNumber, clustersNumber)
          IN  \A p \in Pixels :
                LET R == Region(pixelCluster, p)
                IN  MergesAt(Cardinality(R), avg) =>
                      /\ pixelCluster'[p] # pixelCluster[p]
                      /\ \E q \in Pixels \ R :
                            /\ \E r \in R : q \in Around(r)
                            /\ StartOf(pixelCluster, q) < StartOf(pixelCluster, p)
                            /\ pixelCluster'[q] = pixelCluster'[p]]_vars

\* C16: the average cluster size enforceConnectivity used is the pixel count
\* divided by the cluster count, rounded to the nearest integer, and a
\* component of `count` pixels is merged exactly when count is at most a
\* quarter of it
C16_AverageIsRounded ==
    hist.op = "enforce" =>
        LET avg == ClustersAverageSize(pixelsNumber, clustersNumber)
        IN  /\ 2 * avg * clustersNumber > 2 * pixelsNumber - clustersNumber
            /\ 2 * avg * clustersNumber <= 2 * pixelsNumber + clustersNumber
            /\ \A count \in 1 .. pixelsNumber :
                  MergesAt(count, avg) <=> 4 * count <= avg

\* the pixelSegment of the flood fill in progress holds no pixel twice
SegmentDistinct ==
    \A i, j \in 1 .. Len(workers.seg) :
        workers.seg[i] = workers.seg[j] => i = j

\* C17: an enforceConnectivity call on the Assignment Map a frame left,
\* unassigned entries included, is not stopped before its end, and its flood
\* fill never adds a pixel to the segment twice
C17_PassCompletes ==
    /\ pc # "trapped"
    /\ pc = "flood" => SegmentDistinct

\* C18: after a full reseed every pixel lies in the search window of a
\* seeded centre, and from the first Assignment Step of the frame on no
\* Assignment Map entry is -1: none when the loop ends, none when
\* enforceConnectivity runs
C18_ReseedAssignsAll ==
    /\ JustSeeded =>
          \A p \in Pixels :
             \E k \in 1 .. clustersNumber :
                p \in Window(clusterCentres[k], call.samplingStep)
    /\ (hist.calls > 0 /\ ~JustSeeded) =>
          \A p \in Pixels : pixelCluster[p] # -1

\* the first Assignment Step after a reseed has run, with a centre that the
\* gradient snap moved off its grid point
C18_Witness ==
    /\ pc = "update" /\ iterationIndex = 0 /\ hist.reseeded
    /\ \E k \in 1 .. clustersNumber :
          clusterCentres[k].x % call.samplingStep # 0
    /\ \A p \in Pixels : pixelCluster[p] # -1

====
